---- MODULE Spec2Model ----
(***************************************************************************)
(* ROI calculator of the DexSgOurDexes screen: the calculator functions    *)
(* (calculateLegacyCosts, calculatePlatformCosts, calculateBenefits) and   *)
(* the event handlers working on the component state (calculatorValues,    *)
(* scenario, roiResults, selectedMetric).                                  *)
(*                                                                         *)
(* A JavaScript Number is modelled as a record [k, n, d]:                  *)
(*   k = "fin": the rational n/d in lowest terms, d > 0                    *)
(*   k = "inf": +Infinity (n = 1) or -Infinity (n = -1)                    *)
(*   k = "nan": NaN                                                        *)
(* Finite arithmetic is exact (the rounding of IEEE doubles and the sign   *)
(* of zero are not modelled); Infinity and NaN follow IEEE 754.            *)
(***************************************************************************)
EXTENDS Integers, Sequences, FiniteSets, TLC

VARIABLES calculatorValues, scenario, roiResults, selectedMetric, last

vars == <<calculatorValues, scenario, roiResults, selectedMetric, last>>

----------------------------------------------------------------------------
(* Numbers *)

Abs(i) == IF i < 0 THEN -i ELSE i

RECURSIVE GCD(_, _)
GCD(a, b) == IF b = 0 THEN a ELSE GCD(b, a % b)

Fin(n, d) ==
  LET g == GCD(Abs(n), d)
  IN  [k |-> "fin", n |-> n \div g, d |-> d \div g]

Int2Num(i) == [k |-> "fin", n |-> i, d |-> 1]

Zero == Int2Num(0)

Infinity == [k |-> "inf", n |-> 1, d |-> 1]

NegInfinity == [k |-> "inf", n |-> -1, d |-> 1]

NaN == [k |-> "nan", n |-> 0, d |-> 1]

IsNaN(x) == x.k = "nan"

IsFinite(x) == x.k = "fin"

Sgn(x) == IF x.n > 0 THEN 1 ELSE IF x.n < 0 THEN -1 ELSE 0

Neg(x) == [x EXCEPT !.n = -x.n]

\* x * y
Mul(x, y) ==
  IF IsNaN(x) \/ IsNaN(y) THEN NaN
  ELSE IF x.k = "inf" \/ y.k = "inf"
       THEN IF Sgn(x) * Sgn(y) = 0 THEN NaN
            ELSE [k |-> "inf", n |-> Sgn(x) * Sgn(y), d |-> 1]
       ELSE LET g1 == GCD(Abs(x.n), y.d)
                g2 == GCD(Abs(y.n), x.d)
            IN  Fin((x.n \div g1) * (y.n \div g2), (x.d \div g2) * (y.d \div g1))

\* x + y
Add(x, y) ==
  IF IsNaN(x) \/ IsNaN(y) THEN NaN
  ELSE IF x.k = "inf" /\ y.k = "inf"
       THEN IF x.n = y.n THEN x ELSE NaN
       ELSE IF x.k = "inf" THEN x
       ELSE IF y.k = "inf" THEN y
       ELSE LET g == GCD(x.d, y.d)
            IN  Fin(x.n * (y.d \div g) + y.n * (x.d \div g), x.d * (y.d \div g))

\* x - y
Sub(x, y) == Add(x, Neg(y))

\* x / 100
Div100(x) == Mul(x, Fin(1, 100))

\* x > 0
GT0(x) == ~IsNaN(x) /\ x.n > 0

\* ToBoolean(x), as the left operand of ||
Truthy(x) == ~IsNaN(x) /\ x.n # 0

----------------------------------------------------------------------------
(* Static data *)

Fields ==
  {"num_partners", "avg_tx_per_partner", "int_build_cost_per_partner",
   "int_maint_pct", "api_fee_per_tx", "compliance_cost_annual",
   "error_penalty_rate", "error_rate_legacy", "error_rate_platform",
   "onboard_days_legacy", "onboard_days_platform", "daily_revenue_per_partner"}

defaultValues ==
  [num_partners |-> Int2Num(5),
   avg_tx_per_partner |-> Int2Num(1000),
   int_build_cost_per_partner |-> Int2Num(15000),
   int_maint_pct |-> Int2Num(20),
   api_fee_per_tx |-> Fin(5, 100),
   compliance_cost_annual |-> Int2Num(50000),
   error_penalty_rate |-> Int2Num(15),
   error_rate_legacy |-> Int2Num(3),
   error_rate_platform |-> Fin(5, 10),
   onboard_days_legacy |-> Int2Num(30),
   onboard_days_platform |-> Int2Num(5),
   daily_revenue_per_partner |-> Int2Num(2000)]

scenarios ==
  [conservative |->
     [defaultValues EXCEPT !.num_partners = Int2Num(3),
                           !.avg_tx_per_partner = Int2Num(500),
                           !.daily_revenue_per_partner = Int2Num(1000)],
   optimistic |->
     [defaultValues EXCEPT !.num_partners = Int2Num(10),
                           !.avg_tx_per_partner = Int2Num(2000),
                           !.daily_revenue_per_partner = Int2Num(3000)]]

\* the keys of metricExplanations
metricExplanations == {"totalBenefit", "costSaving", "revenueSaving", "riskSaving"}

\* the null of useState<string | null>(null)
null == "null"

----------------------------------------------------------------------------
(* Calculator functions *)

\* calculateLegacyCosts with int_maint_pct used as a factor, not as a percentage
calculateLegacyCosts_maintNotPct(values) ==
  LET legacy_int_build == Mul(values.num_partners, values.int_build_cost_per_partner)
      legacy_int_maint == Mul(legacy_int_build, values.int_maint_pct)
      legacy_api_fees ==
        Mul(Mul(Mul(values.num_partners, values.avg_tx_per_partner), Int2Num(12)),
            values.api_fee_per_tx)
      legacy_compliance == values.compliance_cost_annual
      legacy_error_cost ==
        Mul(Mul(Mul(Mul(values.num_partners, values.avg_tx_per_partner), Int2Num(12)),
                Div100(values.error_rate_legacy)),
            values.error_penalty_rate)
  IN  [total |-> Add(Add(Add(Add(legacy_int_build, legacy_int_maint), legacy_api_fees),
                         legacy_compliance),
                     legacy_error_cost),
       error_cost |-> legacy_error_cost]

\* calculateLegacyCosts without the compliance cost in the total
calculateLegacyCosts_noCompliance(values) ==
  LET legacy_int_build == Mul(values.num_partners, values.int_build_cost_per_partner)
      legacy_int_maint == Mul(legacy_int_build, Div100(values.int_maint_pct))
      legacy_api_fees ==
        Mul(Mul(Mul(values.num_partners, values.avg_tx_per_partner), Int2Num(12)),
            values.api_fee_per_tx)
      legacy_error_cost ==
        Mul(Mul(Mul(Mul(values.num_partners, values.avg_tx_per_partner), Int2Num(12)),
                Div100(values.error_rate_legacy)),
            values.error_penalty_rate)
  IN  [total |-> Add(Add(Add(legacy_int_build, legacy_int_maint), legacy_api_fees),
                     legacy_error_cost),
       error_cost |-> legacy_error_cost]

calculateLegacyCosts(values) ==
  LET legacy_int_build == Mul(values.num_partners, values.int_build_cost_per_partner)
      legacy_int_maint == Mul(legacy_int_build, Div100(values.int_maint_pct))
      legacy_api_fees ==
        Mul(Mul(Mul(values.num_partners, values.avg_tx_per_partner), Int2Num(12)),
            values.api_fee_per_tx)
      legacy_compliance == values.compliance_cost_annual
      legacy_error_cost ==
        Mul(Mul(Mul(Mul(values.num_partners, values.avg_tx_per_partner), Int2Num(12)),
                Div100(values.error_rate_legacy)),
            values.error_penalty_rate)
  IN  [total |-> Add(Add(Add(Add(legacy_int_build, legacy_int_maint), legacy_api_fees),
                         legacy_compliance),
                     legacy_error_cost),
       error_cost |-> legacy_error_cost]

\* calculatePlatformCosts without the fixed part of the subscription fee
calculatePlatformCosts_noBaseFee(values) ==
  LET platform_sub_fee == Mul(values.num_partners, Int2Num(1000))
      platform_tx_fee ==
        Mul(Mul(Mul(values.num_partners, values.avg_tx_per_partner), Int2Num(12)),
            Fin(1, 100))
      platform_compliance == Mul(values.compliance_cost_annual, Fin(4, 10))
      platform_error_cost ==
        Mul(Mul(Mul(Mul(values.num_partners, values.avg_tx_per_partner), Int2Num(12)),
                Div100(values.error_rate_platform)),
            values.error_penalty_rate)
  IN  [total |-> Add(Add(Add(platform_sub_fee, platform_tx_fee), platform_compliance),
                     platform_error_cost),
       error_cost |-> platform_error_cost]

calculatePlatformCosts(values) ==
  LET platform_sub_fee == Add(Int2Num(10000), Mul(values.num_partners, Int2Num(1000)))
      platform_tx_fee ==
        Mul(Mul(Mul(values.num_partners, values.avg_tx_per_partner), Int2Num(12)),
            Fin(1, 100))
      platform_compliance == Mul(values.compliance_cost_annual, Fin(4, 10))
      platform_error_cost ==
        Mul(Mul(Mul(Mul(values.num_partners, values.avg_tx_per_partner), Int2Num(12)),
                Div100(values.error_rate_platform)),
            values.error_penalty_rate)
  IN  [total |-> Add(Add(Add(platform_sub_fee, platform_tx_fee), platform_compliance),
                     platform_error_cost),
       error_cost |-> platform_error_cost]

\* calculateBenefits with risk_saving left out of totalBenefit
calculateBenefits_noRisk(values) ==
  LET legacyCosts == calculateLegacyCosts(values)
      platformCosts == calculatePlatformCosts(values)
      onboarding_time_saved == Sub(values.onboard_days_legacy, values.onboard_days_platform)
      revenue_uplift ==
        Mul(Mul(values.num_partners, values.daily_revenue_per_partner),
            onboarding_time_saved)
      cost_saving == Sub(legacyCosts.total, platformCosts.total)
      risk_saving == Sub(legacyCosts.error_cost, platformCosts.error_cost)
  IN  [totalBenefit |-> Add(revenue_uplift, cost_saving),
       costSaving |-> cost_saving,
       revenueSaving |-> revenue_uplift,
       riskSaving |-> risk_saving]

\* Math.max(0, x)
ClampAtZero(x) == IF IsNaN(x) THEN NaN ELSE IF x.n < 0 THEN Zero ELSE x

\* calculateBenefits with every saving clamped at 0
calculateBenefits_clamped(values) ==
  LET legacyCosts == calculateLegacyCosts(values)
      platformCosts == calculatePlatformCosts(values)
      onboarding_time_saved == Sub(values.onboard_days_legacy, values.onboard_days_platform)
      revenue_uplift ==
        ClampAtZero(Mul(Mul(values.num_partners, values.daily_revenue_per_partner),
                        onboarding_time_saved))
      cost_saving == ClampAtZero(Sub(legacyCosts.total, platformCosts.total))
      risk_saving == ClampAtZero(Sub(legacyCosts.error_cost, platformCosts.error_cost))
  IN  [totalBenefit |-> Add(Add(revenue_uplift, cost_saving), risk_saving),
       costSaving |-> cost_saving,
       revenueSaving |-> revenue_uplift,
       riskSaving |-> risk_saving]

\* calculateBenefits with the error costs taken out of cost_saving
calculateBenefits_riskOnlyOnce(values) ==
  LET legacyCosts == calculateLegacyCosts(values)
      platformCosts == calculatePlatformCosts(values)
      onboarding_time_saved == Sub(values.onboard_days_legacy, values.onboard_days_platform)
      revenue_uplift ==
        Mul(Mul(values.num_partners, values.daily_revenue_per_partner),
            onboarding_time_saved)
      cost_saving == Sub(Sub(legacyCosts.total, legacyCosts.error_cost),
                         Sub(platformCosts.total, platformCosts.error_cost))
      risk_saving == Sub(legacyCosts.error_cost, platformCosts.error_cost)
  IN  [totalBenefit |-> Add(Add(revenue_uplift, cost_saving), risk_saving),
       costSaving |-> cost_saving,
       revenueSaving |-> revenue_uplift,
       riskSaving |-> risk_saving]

calculateBenefits(values) ==
  LET legacyCosts == calculateLegacyCosts(values)
      platformCosts == calculatePlatformCosts(values)
      onboarding_time_saved == Sub(values.onboard_days_legacy, values.onboard_days_platform)
      revenue_uplift ==
        Mul(Mul(values.num_partners, values.daily_revenue_per_partner),
            onboarding_time_saved)
      cost_saving == Sub(legacyCosts.total, platformCosts.total)
      risk_saving == Sub(legacyCosts.error_cost, platformCosts.error_cost)
  IN  [totalBenefit |-> Add(Add(revenue_uplift, cost_saving), risk_saving),
       costSaving |-> cost_saving,
       revenueSaving |-> revenue_uplift,
       riskSaving |-> risk_saving]

----------------------------------------------------------------------------
(* parseFloat over the characters of the raw text of an input control.     *)
(* Leading white space is skipped, then the longest prefix of the form     *)
(* [+-] (Infinity | digits [. digits] | . digits) is converted; anything   *)
(* after it is ignored; without such a prefix the result is NaN.  Exponent *)
(* parts are not modelled (no raw text of RawValues has one).              *)

Digits == {"0", "1", "2", "3", "4", "5", "6", "7", "8", "9"}

DigitVal(c) ==
  CASE c = "0" -> 0 [] c = "1" -> 1 [] c = "2" -> 2 [] c = "3" -> 3 [] c = "4" -> 4
    [] c = "5" -> 5 [] c = "6" -> 6 [] c = "7" -> 7 [] c = "8" -> 8 [] c = "9" -> 9

InfinityLiteral == <<"I", "n", "f", "i", "n", "i", "t", "y">>

Drop(s, i) == SubSeq(s, i + 1, Len(s))

RECURSIVE TrimStart(_)
TrimStart(s) == IF s # <<>> /\ Head(s) = " " THEN TrimStart(Tail(s)) ELSE s

RECURSIVE DigitRun(_)
DigitRun(s) == IF s # <<>> /\ Head(s) \in Digits THEN 1 + DigitRun(Tail(s)) ELSE 0

RECURSIVE DigitsToInt(_, _)
DigitsToInt(s, acc) ==
  IF s = <<>> THEN acc ELSE DigitsToInt(Tail(s), acc * 10 + DigitVal(Head(s)))

RECURSIVE Pow10(_)
Pow10(i) == IF i = 0 THEN 1 ELSE 10 * Pow10(i - 1)

StartsWith(s, p) == Len(s) >= Len(p) /\ SubSeq(s, 1, Len(p)) = p

parseFloat(value) ==
  LET t == TrimStart(value)
      signed == t # <<>> /\ Head(t) \in {"-", "+"}
      sign == IF t # <<>> /\ Head(t) = "-" THEN -1 ELSE 1
      body == IF signed THEN Tail(t) ELSE t
      il == DigitRun(body)
      afterInt == Drop(body, il)
      hasPoint == afterInt # <<>> /\ Head(afterInt) = "."
      fl == IF hasPoint THEN DigitRun(Tail(afterInt)) ELSE 0
      mantissa == SubSeq(body, 1, il) \o SubSeq(afterInt, 2, fl + 1)
  IN  IF StartsWith(body, InfinityLiteral)
        THEN [k |-> "inf", n |-> sign, d |-> 1]
      ELSE IF il + fl = 0 THEN NaN
      ELSE Fin(sign * DigitsToInt(mantissa, 0), Pow10(fl))

\* parseFloat(value) || 0
parsedOrZero(value) ==
  IF Truthy(parseFloat(value)) THEN parseFloat(value) ELSE Zero

----------------------------------------------------------------------------
(* Inputs of the handlers *)

\* the Input controls with a fourth control, for the maintenance percentage
InputNames_withMaintPct ==
  {"num_partners", "avg_tx_per_partner", "int_build_cost_per_partner", "int_maint_pct"}

\* the name attributes of the Input controls whose onChange is handleInputChange
InputNames == {"num_partners", "avg_tx_per_partner", "int_build_cost_per_partner"}

\* the arguments of the three scenario buttons
ScenarioButtons == {"conservative", "default", "optimistic"}

\* raw texts e.target.value delivered to handleInputChange by the control name
RawValues(name) ==
  CASE name = "num_partners" ->
         { <<>>, <<"-", "5", "x">>, InfinityLiteral }
    [] name = "avg_tx_per_partner" ->
         { <<"-">>, <<"-">> \o InfinityLiteral }
    [] name = "int_build_cost_per_partner" ->
         { <<>>, <<" ", "1", "5", "0", "0", "0">> }
    [] OTHER ->
         { <<>> }

----------------------------------------------------------------------------
(* Component state.  last records the event handled last: its handler     *)
(* (op), its argument (arg: scenario, field name or metric key) and the    *)
(* raw text of an edit; for a click on a metric card also the metric that  *)
(* was selected before it (before), whether the event before it was a      *)
(* click on the same card (run = 2, else 1), and the metric selected       *)
(* before the first click of such a pair (first).  For a click, prev is    *)
(* the handler of the event before it; for a calculate, prev is the        *)
(* handler of the event before it, arg, raw and before are those of that   *)
(* event, and shown tells whether the results grid was rendered when the   *)
(* calculate was invoked.                                                  *)

NoEvent ==
  [op |-> "init", arg |-> "", raw |-> <<>>, before |-> null, run |-> 0, first |-> null,
   prev |-> "", shown |-> FALSE]

\* the record of a calculate handled after the event recorded in l
AfterEvent(l) ==
  IF l.op \in {"init", "calculate"}
    THEN [NoEvent EXCEPT !.op = "calculate", !.prev = l.op,
                         !.shown = GT0(roiResults.totalBenefit)]
    ELSE [l EXCEPT !.op = "calculate", !.prev = l.op, !.run = 0, !.first = null,
                   !.shown = GT0(roiResults.totalBenefit)]

\* the record of a click on the card key handled after the event recorded in l
\* with the metric sel selected
ClickEvent(l, sel, key) ==
  IF l.op = "toggleMetricDetail" /\ l.arg = key
    THEN [NoEvent EXCEPT !.op = "toggleMetricDetail", !.arg = key, !.before = sel,
                         !.run = 2, !.first = l.before, !.prev = l.op]
    ELSE [NoEvent EXCEPT !.op = "toggleMetricDetail", !.arg = key, !.before = sel,
                         !.run = 1, !.first = sel, !.prev = l.op]

\* the component starting in the custom scenario
Init_customScenario ==
  /\ calculatorValues = defaultValues
  /\ scenario = "custom"
  /\ roiResults = [totalBenefit |-> Zero, costSaving |-> Zero,
                   revenueSaving |-> Zero, riskSaving |-> Zero]
  /\ selectedMetric = null
  /\ last = NoEvent

Init ==
  /\ calculatorValues = defaultValues
  /\ scenario = "default"
  /\ roiResults = [totalBenefit |-> Zero, costSaving |-> Zero,
                   revenueSaving |-> Zero, riskSaving |-> Zero]
  /\ selectedMetric = null
  /\ last = NoEvent

\* handleCalculate reading the values of the first render (stale closure)
handleCalculate_staleValues ==
  /\ roiResults' = calculateBenefits(defaultValues)
  /\ last' = AfterEvent(last)
  /\ UNCHANGED <<calculatorValues, scenario, selectedMetric>>

\* handleCalculate that also collapses the expanded metric card
handleCalculate_clearsSelection ==
  /\ roiResults' = calculateBenefits(calculatorValues)
  /\ selectedMetric' = null
  /\ last' = AfterEvent(last)
  /\ UNCHANGED <<calculatorValues, scenario>>

\* handleCalculate that drops the selection when it hides the grid
handleCalculate_clearsHiddenSelection ==
  /\ roiResults' = calculateBenefits(calculatorValues)
  /\ selectedMetric' =
       IF GT0(calculateBenefits(calculatorValues).totalBenefit)
         THEN selectedMetric ELSE null
  /\ last' = AfterEvent(last)
  /\ UNCHANGED <<calculatorValues, scenario>>

handleCalculate ==
  /\ roiResults' = calculateBenefits(calculatorValues)
  /\ last' = AfterEvent(last)
  /\ UNCHANGED <<calculatorValues, scenario, selectedMetric>>

\* handleScenarioChange that also recomputes the results for the new values
handleScenarioChange_recalc(newScenario) ==
  /\ scenario' = newScenario
  /\ calculatorValues' =
       IF newScenario = "conservative" THEN scenarios.conservative
       ELSE IF newScenario = "optimistic" THEN scenarios.optimistic
       ELSE defaultValues
  /\ roiResults' = calculateBenefits(calculatorValues')
  /\ last' = [NoEvent EXCEPT !.op = "selectScenario", !.arg = newScenario]
  /\ UNCHANGED selectedMetric

\* handleScenarioChange that assigns only the fields a preset overrides
handleScenarioChange_overridesOnly(newScenario) ==
  /\ scenario' = newScenario
  /\ calculatorValues' =
       LET preset == IF newScenario = "conservative" THEN scenarios.conservative
                     ELSE IF newScenario = "optimistic" THEN scenarios.optimistic
                     ELSE defaultValues
       IN  [calculatorValues EXCEPT
              !.num_partners = preset.num_partners,
              !.avg_tx_per_partner = preset.avg_tx_per_partner,
              !.daily_revenue_per_partner = preset.daily_revenue_per_partner]
  /\ last' = [NoEvent EXCEPT !.op = "selectScenario", !.arg = newScenario]
  /\ UNCHANGED <<roiResults, selectedMetric>>

handleScenarioChange(newScenario) ==
  /\ scenario' = newScenario
  /\ calculatorValues' =
       IF newScenario = "conservative" THEN scenarios.conservative
       ELSE IF newScenario = "optimistic" THEN scenarios.optimistic
       ELSE defaultValues
  /\ last' = [NoEvent EXCEPT !.op = "selectScenario", !.arg = newScenario]
  /\ UNCHANGED <<roiResults, selectedMetric>>

\* handleInputChange without setScenario("custom")
handleInputChange_keepsScenario(name, value) ==
  /\ calculatorValues' = [calculatorValues EXCEPT ![name] = parsedOrZero(value)]
  /\ last' = [NoEvent EXCEPT !.op = "editField", !.arg = name, !.raw = value]
  /\ UNCHANGED <<scenario, roiResults, selectedMetric>>

\* handleInputChange that spreads defaultValues instead of prev
handleInputChange_fromDefaults(name, value) ==
  /\ calculatorValues' = [defaultValues EXCEPT ![name] = parsedOrZero(value)]
  /\ scenario' = "custom"
  /\ last' = [NoEvent EXCEPT !.op = "editField", !.arg = name, !.raw = value]
  /\ UNCHANGED <<roiResults, selectedMetric>>

\* handleInputChange that switches to custom only when the stored value changes
handleInputChange_customIfChanged(name, value) ==
  /\ calculatorValues' = [calculatorValues EXCEPT ![name] = parsedOrZero(value)]
  /\ scenario' = IF calculatorValues' = calculatorValues THEN scenario ELSE "custom"
  /\ last' = [NoEvent EXCEPT !.op = "editField", !.arg = name, !.raw = value]
  /\ UNCHANGED <<roiResults, selectedMetric>>

handleInputChange(name, value) ==
  /\ calculatorValues' = [calculatorValues EXCEPT ![name] = parsedOrZero(value)]
  /\ scenario' = "custom"
  /\ last' = [NoEvent EXCEPT !.op = "editField", !.arg = name, !.raw = value]
  /\ UNCHANGED <<roiResults, selectedMetric>>

\* onChange of the Input control name, where the page renders one
onChange(name, value) ==
  /\ name \in InputNames
  /\ handleInputChange(name, value)

\* the grid rendered on a truthy totalBenefit
gridVisible_truthy == Truthy(roiResults.totalBenefit)

\* the results grid, and with it the metric cards, is rendered
gridVisible == GT0(roiResults.totalBenefit)

\* onClick that selects the card and never clears the selection
onMetricClick_neverClears(key) ==
  /\ gridVisible
  /\ selectedMetric' = key
  /\ last' = ClickEvent(last, selectedMetric, key)
  /\ UNCHANGED <<calculatorValues, scenario, roiResults>>

\* onClick that collapses an expanded card before another one can be expanded
onMetricClick_collapsesFirst(key) ==
  /\ gridVisible
  /\ selectedMetric' = IF selectedMetric = null THEN key ELSE null
  /\ last' = ClickEvent(last, selectedMetric, key)
  /\ UNCHANGED <<calculatorValues, scenario, roiResults>>

\* onClick of the metric card key
onMetricClick(key) ==
  /\ gridVisible
  /\ selectedMetric' = IF selectedMetric = key THEN null ELSE key
  /\ last' = ClickEvent(last, selectedMetric, key)
  /\ UNCHANGED <<calculatorValues, scenario, roiResults>>

Calculate == handleCalculate

SelectScenario == \E newScenario \in ScenarioButtons : handleScenarioChange(newScenario)

EditField == \E name \in Fields : \E value \in RawValues(name) : onChange(name, value)

ToggleMetricDetail == \E key \in metricExplanations : onMetricClick(key)

Next == Calculate \/ SelectScenario \/ EditField \/ ToggleMetricDetail

Spec == Init /\ [][Next]_vars

TypeOK ==
  /\ DOMAIN calculatorValues = Fields
  /\ scenario \in {"default", "conservative", "optimistic", "custom"}
  /\ DOMAIN roiResults = metricExplanations
  /\ selectedMetric \in metricExplanations \cup {null}

----------------------------------------------------------------------------
(* The calculator functions on their own: calculateBenefits applied to     *)
(* parameter sets drawn field by field from PureValues.                    *)

PureValues(f) ==
  {Zero, defaultValues[f]}
    \cup (IF f = "onboard_days_platform" THEN {Int2Num(40)} ELSE {})
    \cup (IF f = "num_partners" THEN {Int2Num(-5)} ELSE {})

InitPure ==
  /\ calculatorValues \in
       [num_partners : PureValues("num_partners"),
        avg_tx_per_partner : PureValues("avg_tx_per_partner"),
        int_build_cost_per_partner : PureValues("int_build_cost_per_partner"),
        int_maint_pct : PureValues("int_maint_pct"),
        api_fee_per_tx : PureValues("api_fee_per_tx"),
        compliance_cost_annual : PureValues("compliance_cost_annual"),
        error_penalty_rate : PureValues("error_penalty_rate"),
        error_rate_legacy : PureValues("error_rate_legacy"),
        error_rate_platform : PureValues("error_rate_platform"),
        onboard_days_legacy : PureValues("onboard_days_legacy"),
        onboard_days_platform : PureValues("onboard_days_platform"),
        daily_revenue_per_partner : PureValues("daily_revenue_per_partner")]
  /\ scenario = "custom"
  /\ roiResults = [totalBenefit |-> Zero, costSaving |-> Zero,
                   revenueSaving |-> Zero, riskSaving |-> Zero]
  /\ selectedMetric = null
  /\ last = NoEvent

NextPure == Calculate

SpecPure == InitPure /\ [][NextPure]_vars

----------------------------------------------------------------------------
(* Properties *)

ZeroResults ==
  [totalBenefit |-> Zero, costSaving |-> Zero, revenueSaving |-> Zero, riskSaving |-> Zero]

AllZero == \A f \in Fields : calculatorValues[f] = Zero

PresetOf(name) ==
  CASE name = "default" -> defaultValues
    [] name = "conservative" -> scenarios.conservative
    [] name = "optimistic" -> scenarios.optimistic

Calculated == last.op = "calculate"

Edited == last.op = "editField"

\* the raw text of the last edit does not parse as a number
UnparsableEdit == Edited /\ IsNaN(parseFloat(last.raw))

\* C1 as stated: after calculate on the parameter set whose twelve fields are
\* all 0, totalBenefit, costSaving, revenueSaving and riskSaving are all 0.
C1_AllZeroGivesAllZero ==
  (Calculated /\ AllZero) => roiResults = ZeroResults

\* C1 as amended: after calculate on the parameter set whose twelve fields are
\* all 0, revenueSaving = 0 and riskSaving = 0, but costSaving = -10000 and
\* totalBenefit = -10000: the platform subscription fee has a fixed part of
\* 10000 that the all-zero legacy costs do not offset.
C1_AllZeroGivesBaseFeeLoss ==
  (Calculated /\ AllZero) =>
     roiResults = [totalBenefit |-> Int2Num(-10000), costSaving |-> Int2Num(-10000),
                   revenueSaving |-> Zero, riskSaving |-> Zero]

C1_Witness == Calculated /\ AllZero

\* C2: calculate on the default preset yields costSaving = 129900,
\* revenueSaving = 250000, riskSaving = 22500 and totalBenefit = 402400, with
\* a legacy total of 170000 and a platform total of 40100.
C2_DefaultPresetResults ==
  (Calculated /\ calculatorValues = defaultValues) =>
     /\ roiResults = [totalBenefit |-> Int2Num(402400), costSaving |-> Int2Num(129900),
                      revenueSaving |-> Int2Num(250000), riskSaving |-> Int2Num(22500)]
     /\ calculateLegacyCosts(calculatorValues).total = Int2Num(170000)
     /\ calculatePlatformCosts(calculatorValues).total = Int2Num(40100)

C2_Witness ==
  Calculated /\ calculatorValues = defaultValues /\ scenario = "default"

\* C3: in every reachable state totalBenefit is the sum costSaving +
\* revenueSaving + riskSaving of the same record (equality is sameness of
\* value: a NaN total with a NaN sum counts as equal), and every step either
\* leaves roiResults as it is or replaces it as a whole by the benefits of the
\* current values.
C3_TotalIsSumOfParts ==
  /\ [](roiResults.totalBenefit =
          Add(Add(roiResults.costSaving, roiResults.revenueSaving), roiResults.riskSaving))
  /\ [][roiResults' = roiResults \/ roiResults' = calculateBenefits(calculatorValues)]_vars

C3_Witness ==
  /\ Calculated
  /\ IsFinite(roiResults.riskSaving) /\ roiResults.riskSaving # Zero
  /\ IsFinite(roiResults.totalBenefit)

\* C4: a step of selectScenario, editField or toggleMetricDetail leaves the
\* four results unchanged; only calculate changes them.
C4_OnlyCalculateChangesResults ==
  [][last'.op # "calculate" => roiResults' = roiResults]_vars

\* results of an earlier calculate are still shown after an edit or a scenario
\* change made them stale
C4_Witness ==
  /\ last.op \in {"selectScenario", "editField"}
  /\ roiResults # ZeroResults
  /\ roiResults # calculateBenefits(calculatorValues)

\* C5: an editField step replaces only the edited field: each of the other
\* eleven fields keeps its value.
C5_EditReplacesOnlyOneField ==
  [][last'.op = "editField" =>
       \A g \in Fields \ {last'.arg} : calculatorValues'[g] = calculatorValues[g]]_vars

\* an edit on top of the conservative preset: the edited field differs, the
\* other eleven hold the conservative values
C5_Witness ==
  /\ Edited
  /\ calculatorValues[last.arg] # scenarios.conservative[last.arg]
  /\ \A g \in Fields \ {last.arg} : calculatorValues[g] = scenarios.conservative[g]

\* C6: after every editField the scenario is custom, also when the values
\* equal a preset field for field.
C6_EditSetsCustom ==
  Edited => scenario = "custom"

C6_Witness ==
  /\ Edited
  /\ calculatorValues \in {PresetOf(n) : n \in ScenarioButtons}

\* C7: after selectScenario(name) the twelve values are those of the preset
\* name and scenario = name, whatever was edited before.
C7_SelectInstallsPreset ==
  last.op = "selectScenario" =>
     /\ last.arg \in ScenarioButtons
     /\ scenario = last.arg
     /\ calculatorValues = PresetOf(last.arg)

\* a preset selected after edited values had been calculated
C7_Witness ==
  /\ last.op = "selectScenario"
  /\ roiResults # ZeroResults
  /\ \A n \in ScenarioButtons : roiResults # calculateBenefits(PresetOf(n))

\* C8: an editField whose raw text does not parse as a number stores 0 in the
\* edited field, and a calculate that follows it yields no NaN result.
C8_UnparsableEditIsZeroAndResultsNotNaN ==
  [][/\ (last'.op = "editField" /\ IsNaN(parseFloat(last'.raw)))
          => calculatorValues'[last'.arg] = Zero
     /\ (UnparsableEdit /\ last'.op = "calculate")
          => \A m \in metricExplanations : ~IsNaN(roiResults'[m])]_vars

\* C9: every field of the current values is a finite number.
C9_AllFieldsFinite ==
  \A f \in Fields : IsFinite(calculatorValues[f])

\* two clicks in a row on the same card have just been handled
ToggledTwice == last.op = "toggleMetricDetail" /\ last.run = 2

\* C10 as stated: two toggleMetricDetail in a row with the same key end with
\* no metric selected.
C10_DoubleToggleCollapses ==
  ToggledTwice => selectedMetric = null

\* C10 as amended: two toggleMetricDetail in a row with the same key k end
\* with no metric selected when k was not the selected metric before the
\* first of them, and with k selected again when it was.
C10_DoubleToggleRestoresOrCollapses ==
  ToggledTwice =>
     selectedMetric = IF last.first = last.arg THEN last.arg ELSE null

C10_Witness ==
  ToggledTwice /\ last.first # last.arg /\ selectedMetric = null

\* the selection a click on the card k leaves when b was selected before it
Toggled(b, k) == IF b = k THEN null ELSE k

\* the state both orders of a click on last.arg and a calculate lead to from
\* a state with last.before selected
ToggleAndCalculateDone ==
  /\ roiResults = calculateBenefits(calculatorValues)
  /\ selectedMetric = Toggled(last.before, last.arg)

\* toggleMetricDetail(k) then calculate have just been handled
ToggleThenCalculate == last.op = "calculate" /\ last.prev = "toggleMetricDetail"

\* calculate then toggleMetricDetail(k) have just been handled
CalculateThenToggle == last.op = "toggleMetricDetail" /\ last.prev = "calculate"

\* C11 as stated: in every reachable state, the initial one included, every
\* toggleMetricDetail(k) can be performed, and toggleMetricDetail(k) followed
\* by calculate ends in the same state as calculate followed by
\* toggleMetricDetail(k).
C11_ToggleAvailableAndCommutes ==
  /\ \A k \in metricExplanations : ENABLED onMetricClick(k)
  /\ ToggleThenCalculate => ToggleAndCalculateDone
  /\ CalculateThenToggle => ToggleAndCalculateDone

\* C11 as amended: toggleMetricDetail(k) can be performed exactly in the
\* states with totalBenefit > 0, so not in the initial state and, after a
\* calculate, only when that calculate yields totalBenefit > 0; where it can
\* be performed before and after calculate, both orders end in the same
\* state: the results of the current values, the selection toggled once, the
\* values and the scenario untouched.
C11_ToggleCommutesWhereAvailable ==
  /\ [](\A k \in metricExplanations :
          (ENABLED onMetricClick(k)) <=> GT0(roiResults.totalBenefit))
  /\ [](last.op = "init" => \A k \in metricExplanations : ~ENABLED onMetricClick(k))
  /\ [](ToggleThenCalculate => ToggleAndCalculateDone)
  /\ [](CalculateThenToggle => ToggleAndCalculateDone)
  /\ [][last'.op \in {"calculate", "toggleMetricDetail"} =>
          (calculatorValues' = calculatorValues /\ scenario' = scenario)]_vars

\* a card expanded while the grid was shown is still expanded after a
\* calculate that keeps the grid shown
C11_Witness ==
  ToggleThenCalculate /\ gridVisible /\ selectedMetric = last.arg

\* C12: toggleMetricDetail(key) clears the selection when key was selected
\* and selects key otherwise, also when another metric was selected; the
\* selection is always one metric key or none.
C12_ToggleClearsOrSelects ==
  /\ selectedMetric \in metricExplanations \cup {null}
  /\ last.op = "toggleMetricDetail" =>
       /\ last.before = last.arg => selectedMetric = null
       /\ last.before # last.arg => selectedMetric = last.arg

\* a click on one card while another one was expanded
C12_Witness ==
  /\ last.op = "toggleMetricDetail"
  /\ last.before \in metricExplanations \ {last.arg}
  /\ selectedMetric = last.arg

\* x is a number and x > 0
Positive(x) == x.k # "nan" /\ x.n > 0

\* C13: the results grid is rendered exactly in the states with
\* totalBenefit > 0: not in the initial state and not after a calculate that
\* yields a totalBenefit that is not positive, whatever the other three
\* results are and whether or not the grid was rendered before.
C13_GridShownIffPositiveTotal ==
  /\ gridVisible <=> Positive(roiResults.totalBenefit)
  /\ last.op = "init" => ~gridVisible
  /\ (Calculated /\ ~Positive(roiResults.totalBenefit)) => ~gridVisible

\* a calculate with a negative total and non-zero parts has hidden the grid
\* in which a metric had been selected
C13_Witness ==
  /\ Calculated
  /\ ~gridVisible
  /\ selectedMetric # null
  /\ IsFinite(roiResults.totalBenefit) /\ roiResults.totalBenefit.n < 0
  /\ roiResults.costSaving # Zero /\ roiResults.revenueSaving # Zero
  /\ roiResults.riskSaving # Zero

\* an edit of the field f can be performed
CanEdit(f) == ENABLED (\E value \in RawValues(f) : onChange(f, value))

\* C14 as stated: editField can be invoked for each of the twelve fields
\* (so that each of them can come to differ from its default value).
C14_EveryFieldEditable ==
  \A f \in Fields : CanEdit(f)

\* the fields the page has an Input control for
EditableFields == {"num_partners", "avg_tx_per_partner", "int_build_cost_per_partner"}

\* C14 as amended: editField can be invoked for num_partners,
\* avg_tx_per_partner and int_build_cost_per_partner only; of the other nine
\* fields daily_revenue_per_partner holds the value of a preset (2000, 1000 or
\* 3000) and the remaining eight hold their default value in every reachable
\* state.
C14_ThreeFieldsEditable ==
  /\ \A f \in Fields : CanEdit(f) <=> f \in EditableFields
  /\ calculatorValues.daily_revenue_per_partner
       \in {Int2Num(2000), Int2Num(1000), Int2Num(3000)}
  /\ \A f \in Fields \ (EditableFields \cup {"daily_revenue_per_partner"}) :
       calculatorValues[f] = defaultValues[f]

\* each of the three editable fields differs from its default value
C14_Witness ==
  /\ Edited
  /\ \A f \in EditableFields : calculatorValues[f] # defaultValues[f]

\* the default preset, value by value
DefaultPreset ==
  [num_partners |-> Int2Num(5),
   avg_tx_per_partner |-> Int2Num(1000),
   int_build_cost_per_partner |-> Int2Num(15000),
   int_maint_pct |-> Int2Num(20),
   api_fee_per_tx |-> Fin(1, 20),
   compliance_cost_annual |-> Int2Num(50000),
   error_penalty_rate |-> Int2Num(15),
   error_rate_legacy |-> Int2Num(3),
   error_rate_platform |-> Fin(1, 2),
   onboard_days_legacy |-> Int2Num(30),
   onboard_days_platform |-> Int2Num(5),
   daily_revenue_per_partner |-> Int2Num(2000)]

\* C15: before any event the values are the default preset in all twelve
\* fields, the scenario is default, the four results are 0 and no metric is
\* selected.
C15_InitialState ==
  last.op = "init" =>
     /\ calculatorValues = DefaultPreset
     /\ scenario = "default"
     /\ roiResults = ZeroResults
     /\ selectedMetric = null

C15_Witness == last.op = "init" /\ scenario = "default"

\* The formulas of the ROI engine, written out from the parameters p
TxPerYear(p) == Mul(Mul(p.num_partners, p.avg_tx_per_partner), Int2Num(12))

ErrorCostLegacy(p) ==
  Mul(Mul(TxPerYear(p), Mul(p.error_rate_legacy, Fin(1, 100))), p.error_penalty_rate)

ErrorCostPlatform(p) ==
  Mul(Mul(TxPerYear(p), Mul(p.error_rate_platform, Fin(1, 100))), p.error_penalty_rate)

\* build + maint + api_fees + compliance
NonErrorLegacy(p) ==
  LET build == Mul(p.num_partners, p.int_build_cost_per_partner)
      maint == Mul(build, Mul(p.int_maint_pct, Fin(1, 100)))
      api_fees == Mul(TxPerYear(p), p.api_fee_per_tx)
  IN  Add(Add(Add(build, maint), api_fees), p.compliance_cost_annual)

\* sub_fee + tx_fee + platform_compliance
NonErrorPlatform(p) ==
  LET sub_fee == Add(Int2Num(10000), Mul(p.num_partners, Int2Num(1000)))
      tx_fee == Mul(TxPerYear(p), Fin(1, 100))
      platform_compliance == Mul(Fin(4, 10), p.compliance_cost_annual)
  IN  Add(Add(sub_fee, tx_fee), platform_compliance)

LegacyTotal(p) == Add(NonErrorLegacy(p), ErrorCostLegacy(p))

PlatformTotal(p) == Add(NonErrorPlatform(p), ErrorCostPlatform(p))

RevenueSaving(p) ==
  Mul(Mul(p.num_partners, p.daily_revenue_per_partner),
      Sub(p.onboard_days_legacy, p.onboard_days_platform))

Negative(x) == x.k # "nan" /\ x.n < 0

\* C16: calculate stores revenueSaving, costSaving and riskSaving as the
\* formulas give them, a negative value as a negative value: nothing is
\* clamped at 0.
C16_NoClamping ==
  Calculated =>
     /\ roiResults.revenueSaving = RevenueSaving(calculatorValues)
     /\ roiResults.costSaving =
          Sub(LegacyTotal(calculatorValues), PlatformTotal(calculatorValues))
     /\ roiResults.riskSaving =
          Sub(ErrorCostLegacy(calculatorValues), ErrorCostPlatform(calculatorValues))
     /\ Negative(RevenueSaving(calculatorValues)) => Negative(roiResults.revenueSaving)

\* a negative number of partners makes all four results negative
C16_Witness ==
  /\ Calculated
  /\ Negative(calculatorValues.num_partners)
  /\ \A m \in metricExplanations : Negative(roiResults[m])

\* C17: the costSaving of calculate is legacy_total - platform_total, the
\* two totals computed from the parameters by the formulas of the engine.
C17_CostSavingIsDifferenceOfTotals ==
  Calculated =>
     /\ calculateLegacyCosts(calculatorValues).total = LegacyTotal(calculatorValues)
     /\ calculatePlatformCosts(calculatorValues).total = PlatformTotal(calculatorValues)
     /\ roiResults.costSaving =
          Sub(LegacyTotal(calculatorValues), PlatformTotal(calculatorValues))

\* totals that differ in every term
C17_Witness ==
  /\ Calculated
  /\ \A f \in Fields : calculatorValues[f] # Zero
  /\ roiResults.costSaving # Zero

\* C18: a calculate handled right after an editField or a selectScenario
\* yields the benefits of the values that event produced: the edited field
\* holds the edited value, or the values are the selected preset.
C18_CalculateUsesUpdatedValues ==
  /\ (Calculated /\ last.prev = "editField") =>
       /\ calculatorValues[last.arg] = parsedOrZero(last.raw)
       /\ roiResults = calculateBenefits(calculatorValues)
  /\ (Calculated /\ last.prev = "selectScenario") =>
       /\ calculatorValues = PresetOf(last.arg)
       /\ roiResults = calculateBenefits(PresetOf(last.arg))

\* a calculate right after one edit on top of the default preset, with
\* results that differ from those of the default preset
C18_Witness ==
  /\ Calculated /\ last.prev = "editField"
  /\ calculatorValues[last.arg] # defaultValues[last.arg]
  /\ \A g \in Fields \ {last.arg} : calculatorValues[g] = defaultValues[g]
  /\ roiResults # calculateBenefits(defaultValues)

\* C19: the scenario is one of default, conservative, optimistic and custom,
\* and while it is one of the first three the values are that preset in all
\* twelve fields.
C19_PresetScenarioHasPresetValues ==
  /\ scenario \in {"default", "conservative", "optimistic", "custom"}
  /\ scenario \in ScenarioButtons => calculatorValues = PresetOf(scenario)

\* the converse fails: the values of the optimistic preset under custom
C19_Witness ==
  scenario = "custom" /\ calculatorValues = scenarios.optimistic

\* C20: totalBenefit = revenueSaving + (non-error legacy costs - non-error
\* platform costs) + 2 x riskSaving: the error-cost difference is in
\* costSaving and again in riskSaving.
C20_RiskCountedTwice ==
  Calculated =>
     /\ roiResults.costSaving =
          Add(Sub(NonErrorLegacy(calculatorValues), NonErrorPlatform(calculatorValues)),
              roiResults.riskSaving)
     /\ roiResults.totalBenefit =
          Add(Add(roiResults.revenueSaving,
                  Sub(NonErrorLegacy(calculatorValues), NonErrorPlatform(calculatorValues))),
              Mul(Int2Num(2), roiResults.riskSaving))

C20_Witness ==
  /\ Calculated
  /\ Positive(roiResults.riskSaving)
  /\ roiResults.totalBenefit #
       Add(Add(roiResults.revenueSaving,
               Sub(NonErrorLegacy(calculatorValues), NonErrorPlatform(calculatorValues))),
           roiResults.riskSaving)

\* C21: a step of calculate, selectScenario or editField leaves the selected
\* metric as it is, and a step of calculate also leaves the values and the
\* scenario as they are; so a metric selected while the grid was rendered is
\* still selected while a calculate has the grid hidden, and its card is
\* expanded again once a calculate has the grid rendered.
C21_SelectionSurvivesOtherEvents ==
  [][/\ last'.op \in {"calculate", "selectScenario", "editField"}
          => selectedMetric' = selectedMetric
     /\ last'.op = "calculate"
          => (calculatorValues' = calculatorValues /\ scenario' = scenario)]_vars

\* a calculate invoked while the grid was hidden with a metric still selected
\* has the grid rendered, with the card of that metric expanded
C21_Witness ==
  /\ Calculated
  /\ ~last.shown
  /\ gridVisible
  /\ selectedMetric \in metricExplanations

====
